---- MODULE Spec2Model ----
(***************************************************************************)
(* A model of lmdbm (src/lmdbm/lmdbm.py): a dictionary facade over an LMDB *)
(* environment, with the autogrow retry loop of __setitem__ / update and   *)
(* the value codec classes LmdbJson / LmdbCompress composed by chain().    *)
(*                                                                         *)
(* Python values are records [t, d]: t is the Python type, d the payload.  *)
(* bytes and str carry sequences of byte values / code points; an          *)
(* exception raised by an expression is the value [t |-> "exc"].           *)
(* The Engine (the lmdb package) and gzip/json are libraries outside the   *)
(* repository: they are modelled at the calls the source makes to them.    *)
(***************************************************************************)
EXTENDS Integers, Sequences, FiniteSets, TLC

\* ------------------------------------------------------------ Python values

B(s) == [t |-> "bytes", d |-> s]
S(s) == [t |-> "str", d |-> s]
I(n) == [t |-> "int", d |-> n]
PyBool(b) == [t |-> "bool", d |-> b]
PyNone == [t |-> "none", d |-> 0]
PyList(s) == [t |-> "list", d |-> s]
PyDict(s) == [t |-> "dict", d |-> s]
Exc(e) == [t |-> "exc", d |-> e]
IsExc(v) == v.t = "exc"

\* str.encode("utf8") on a sequence of code points (below 65536).
RECURSIVE utf8_encode(_)
utf8_encode(s) ==
    IF s = <<>> THEN <<>>
    ELSE LET c == Head(s)
             enc == IF c < 128 THEN <<c>>
                    ELSE IF c < 2048 THEN <<192 + (c \div 64), 128 + (c % 64)>>
                    ELSE <<224 + (c \div 4096), 128 + ((c \div 64) % 64), 128 + (c % 64)>>
         IN enc \o utf8_encode(Tail(s))

\* bytes.decode("utf8"): [ok, d]; ok is FALSE for a UnicodeDecodeError.
RECURSIVE utf8_decode(_)
utf8_decode(b) ==
    IF b = <<>> THEN [ok |-> TRUE, d |-> <<>>]
    ELSE LET c == b[1]
             n == IF c < 128 THEN 1
                  ELSE IF c >= 194 /\ c < 224 THEN 2
                  ELSE IF c >= 224 /\ c < 240 THEN 3
                  ELSE 0
             contOK == /\ n > 0
                       /\ Len(b) >= n
                       /\ \A j \in 2..n : b[j] >= 128 /\ b[j] < 192
             cp == IF n = 1 THEN c
                   ELSE IF n = 2 THEN (c - 192) * 64 + (b[2] - 128)
                   ELSE (c - 224) * 4096 + (b[2] - 128) * 64 + (b[3] - 128)
             rest == utf8_decode(SubSeq(b, n + 1, Len(b)))
         IN IF ~contOK \/ (n = 3 /\ cp < 2048) THEN [ok |-> FALSE, d |-> <<>>]
            ELSE IF ~rest.ok THEN rest
            ELSE [ok |-> TRUE, d |-> <<cp>> \o rest.d]

\* text_encoding = "utf8"; to_bytes accepts bytes and str and raises TypeError otherwise.
to_bytes(value) ==
    IF value.t = "exc" THEN value
    ELSE IF value.t = "bytes" THEN value
    ELSE IF value.t = "str" THEN B(utf8_encode(value.d))
    ELSE Exc("TypeError")

\* ------------------------------------------------------------ json (library)

RECURSIVE Digits(_)
Digits(n) == IF n < 10 THEN <<48 + n>> ELSE Digits(n \div 10) \o <<48 + (n % 10)>>

IntText(n) == IF n < 0 THEN <<45>> \o Digits(0 - n) ELSE Digits(n)

HexDigit(h) == IF h < 10 THEN 48 + h ELSE 87 + h

\* One character of a JSON string, ensure_ascii=True (json.dumps' default).
EscapeChar(c) ==
    IF c = 34 THEN <<92, 34>>
    ELSE IF c = 92 THEN <<92, 92>>
    ELSE IF c = 10 THEN <<92, 110>>
    ELSE IF c < 32 \/ c > 126
         THEN <<92, 117, HexDigit(c \div 4096), HexDigit((c \div 256) % 16),
                HexDigit((c \div 16) % 16), HexDigit(c % 16)>>
    ELSE <<c>>

RECURSIVE EscapeText(_)
EscapeText(s) == IF s = <<>> THEN <<>> ELSE EscapeChar(Head(s)) \o EscapeText(Tail(s))

QuotedText(s) == <<34>> \o EscapeText(s) \o <<34>>

\* json.dumps(value, separators=(",", ":")): [ok, d], d the text as code points;
\* ok is FALSE for "Object of type ... is not JSON serializable" (TypeError).
RECURSIVE DumpValue(_), DumpItems(_, _), DumpMembers(_, _)
DumpValue(v) ==
    IF v.t = "none" THEN [ok |-> TRUE, d |-> <<110, 117, 108, 108>>]
    ELSE IF v.t = "bool"
         THEN [ok |-> TRUE, d |-> IF v.d THEN <<116, 114, 117, 101>> ELSE <<102, 97, 108, 115, 101>>]
    ELSE IF v.t = "int" THEN [ok |-> TRUE, d |-> IntText(v.d)]
    ELSE IF v.t = "str" THEN [ok |-> TRUE, d |-> QuotedText(v.d)]
    ELSE IF v.t = "list"
         THEN LET r == DumpItems(v.d, 1)
              IN [ok |-> r.ok, d |-> <<91>> \o r.d \o <<93>>]
    ELSE IF v.t = "dict"
         THEN LET r == DumpMembers(v.d, 1)
              IN [ok |-> r.ok, d |-> <<123>> \o r.d \o <<125>>]
    ELSE [ok |-> FALSE, d |-> <<>>]

DumpItems(items, i) ==
    IF i > Len(items) THEN [ok |-> TRUE, d |-> <<>>]
    ELSE LET x == DumpValue(items[i])
             rest == DumpItems(items, i + 1)
         IN [ok |-> x.ok /\ rest.ok,
             d |-> x.d \o (IF i < Len(items) THEN <<44>> ELSE <<>>) \o rest.d]

\* A dict is a sequence of <<key, value>> in insertion order; a str key is written
\* as it is, an int key as its decimal text, any other key raises TypeError.
DumpMembers(members, i) ==
    IF i > Len(members) THEN [ok |-> TRUE, d |-> <<>>]
    ELSE LET key == members[i][1]
             keyOK == key.t \in {"str", "int"}
             keyText == IF key.t = "str" THEN QuotedText(key.d)
                        ELSE IF key.t = "int" THEN <<34>> \o IntText(key.d) \o <<34>>
                        ELSE <<>>
             x == DumpValue(members[i][2])
             rest == DumpMembers(members, i + 1)
         IN [ok |-> keyOK /\ x.ok /\ rest.ok,
             d |-> keyText \o <<58>> \o x.d \o (IF i < Len(members) THEN <<44>> ELSE <<>>) \o rest.d]

json_dumps(value) ==
    IF value.t = "exc" THEN value
    ELSE LET r == DumpValue(value)
         IN IF r.ok THEN S(r.d) ELSE Exc("TypeError")

\* json.loads: a recursive-descent parse of the text s from position i.
\* Each parser returns [ok, v, n]: the value read and the position after it.
ParseFail == [ok |-> FALSE, v |-> PyNone, n |-> 0]

Matches(s, i, word) ==
    /\ i + Len(word) - 1 <= Len(s)
    /\ SubSeq(s, i, i + Len(word) - 1) = word

IsDigit(c) == c >= 48 /\ c <= 57

HexValue(c) == IF IsDigit(c) THEN c - 48
               ELSE IF c >= 97 /\ c <= 102 THEN c - 87
               ELSE IF c >= 65 /\ c <= 70 THEN c - 55
               ELSE 0 - 1

RECURSIVE SkipWs(_, _)
SkipWs(s, i) == IF i <= Len(s) /\ s[i] \in {32, 9, 10, 13} THEN SkipWs(s, i + 1) ELSE i

RECURSIVE ParseDigits(_, _, _)
ParseDigits(s, i, acc) ==
    IF i <= Len(s) /\ IsDigit(s[i]) THEN ParseDigits(s, i + 1, acc * 10 + (s[i] - 48))
    ELSE [ok |-> TRUE, v |-> I(acc), n |-> i]

\* An integer: -?(0|[1-9][0-9]*). A fraction or an exponent would make a float,
\* which no value of the model is: it is left unread, and the parse then fails on it.
ParseNumber(s, i) ==
    LET neg == s[i] = 45
        j == IF neg THEN i + 1 ELSE i
    IN IF j > Len(s) \/ ~IsDigit(s[j]) THEN ParseFail
       ELSE LET r == IF s[j] = 48 THEN [ok |-> TRUE, v |-> I(0), n |-> j + 1]
                     ELSE ParseDigits(s, j, 0)
            IN IF r.n <= Len(s) /\ s[r.n] \in {46, 101, 69} THEN ParseFail
               ELSE [ok |-> TRUE, v |-> I(IF neg THEN 0 - r.v.d ELSE r.v.d), n |-> r.n]

\* The characters of a string after its opening quote, up to the closing one.
RECURSIVE ParseChars(_, _, _)
ParseChars(s, i, acc) ==
    IF i > Len(s) THEN ParseFail
    ELSE IF s[i] = 34 THEN [ok |-> TRUE, v |-> S(acc), n |-> i + 1]
    ELSE IF s[i] < 32 THEN ParseFail
    ELSE IF s[i] # 92 THEN ParseChars(s, i + 1, Append(acc, s[i]))
    ELSE IF i + 1 > Len(s) THEN ParseFail
    ELSE IF s[i + 1] \in {34, 92, 47} THEN ParseChars(s, i + 2, Append(acc, s[i + 1]))
    ELSE IF s[i + 1] = 110 THEN ParseChars(s, i + 2, Append(acc, 10))
    ELSE IF s[i + 1] = 116 THEN ParseChars(s, i + 2, Append(acc, 9))
    ELSE IF s[i + 1] = 114 THEN ParseChars(s, i + 2, Append(acc, 13))
    ELSE IF s[i + 1] = 117 /\ i + 5 <= Len(s) /\ \A j \in (i + 2)..(i + 5) : HexValue(s[j]) >= 0
         THEN ParseChars(s, i + 6,
                         Append(acc, HexValue(s[i + 2]) * 4096 + HexValue(s[i + 3]) * 256
                                     + HexValue(s[i + 4]) * 16 + HexValue(s[i + 5])))
    ELSE ParseFail

RECURSIVE ParseValue(_, _), ParseItems(_, _, _), ParseMembers(_, _, _)
ParseValue(s, i0) ==
    LET i == SkipWs(s, i0)
    IN IF i > Len(s) THEN ParseFail
       ELSE IF Matches(s, i, <<110, 117, 108, 108>>) THEN [ok |-> TRUE, v |-> PyNone, n |-> i + 4]
       ELSE IF Matches(s, i, <<116, 114, 117, 101>>) THEN [ok |-> TRUE, v |-> PyBool(TRUE), n |-> i + 4]
       ELSE IF Matches(s, i, <<102, 97, 108, 115, 101>>) THEN [ok |-> TRUE, v |-> PyBool(FALSE), n |-> i + 5]
       ELSE IF s[i] = 45 \/ IsDigit(s[i]) THEN ParseNumber(s, i)
       ELSE IF s[i] = 34 THEN ParseChars(s, i + 1, <<>>)
       ELSE IF s[i] = 91
            THEN LET j == SkipWs(s, i + 1)
                 IN IF j <= Len(s) /\ s[j] = 93 THEN [ok |-> TRUE, v |-> PyList(<<>>), n |-> j + 1]
                    ELSE ParseItems(s, j, <<>>)
       ELSE IF s[i] = 123
            THEN LET j == SkipWs(s, i + 1)
                 IN IF j <= Len(s) /\ s[j] = 125 THEN [ok |-> TRUE, v |-> PyDict(<<>>), n |-> j + 1]
                    ELSE ParseMembers(s, j, <<>>)
       ELSE ParseFail

\* value (, value)* ]
ParseItems(s, i, acc) ==
    LET x == ParseValue(s, i)
        j == SkipWs(s, x.n)
    IN IF ~x.ok \/ j > Len(s) THEN ParseFail
       ELSE IF s[j] = 93 THEN [ok |-> TRUE, v |-> PyList(Append(acc, x.v)), n |-> j + 1]
       ELSE IF s[j] = 44 THEN ParseItems(s, j + 1, Append(acc, x.v))
       ELSE ParseFail

\* "key" : value (, "key" : value)* }
ParseMembers(s, i0, acc) ==
    LET i == SkipWs(s, i0)
        key == IF i <= Len(s) /\ s[i] = 34 THEN ParseChars(s, i + 1, <<>>) ELSE ParseFail
        c == SkipWs(s, key.n)
        x == IF key.ok /\ c <= Len(s) /\ s[c] = 58 THEN ParseValue(s, c + 1) ELSE ParseFail
        j == SkipWs(s, x.n)
    IN IF ~x.ok \/ j > Len(s) THEN ParseFail
       ELSE IF s[j] = 125 THEN [ok |-> TRUE, v |-> PyDict(Append(acc, <<key.v, x.v>>)), n |-> j + 1]
       ELSE IF s[j] = 44 THEN ParseMembers(s, j + 1, Append(acc, <<key.v, x.v>>))
       ELSE ParseFail

\* json.loads(value): bytes are decoded as utf8 first; a text that is not one JSON
\* document raises JSONDecodeError, undecodable bytes raise UnicodeDecodeError.
json_loads(value) ==
    IF value.t = "exc" THEN value
    ELSE IF value.t \notin {"bytes", "str"} THEN Exc("TypeError")
    ELSE LET text == IF value.t = "str" THEN [ok |-> TRUE, d |-> value.d] ELSE utf8_decode(value.d)
             r == ParseValue(text.d, 1)
         IN IF ~text.ok THEN Exc("UnicodeDecodeError")
            ELSE IF r.ok /\ SkipWs(text.d, r.n) = Len(text.d) + 1 THEN r.v
            ELSE Exc("JSONDecodeError")

\* ------------------------------------------------------------ gzip (library)

\* The compressed stream is modelled as a two-byte magic number, the data in
\* run-length form (count, byte) and a trailer holding the data's length mod 256.
RECURSIVE RunLength(_, _)
RunLength(data, i) ==
    IF i > Len(data) THEN <<>>
    ELSE LET same == {j \in i..Len(data) : \A m \in i..j : data[m] = data[i]}
             n == Cardinality(same)
         IN <<n, data[i]>> \o RunLength(data, i + n)

RECURSIVE RunExpand(_, _)
RunExpand(body, i) ==
    IF i > Len(body) THEN <<>>
    ELSE [j \in 1..body[i] |-> body[i + 1]] \o RunExpand(body, i + 2)

GzipMagic == <<31, 139>>

\* gzip.compress(data, compresslevel): the level changes the size, never the data read back.
gzip_compress(data, compresslevel) ==
    IF data.t = "exc" THEN data
    ELSE IF data.t # "bytes" THEN Exc("TypeError")
    ELSE B(GzipMagic \o RunLength(data.d, 1) \o <<Len(data.d) % 256>>)

\* gzip.decompress(data): BadGzipFile for anything that is not a gzip stream.
gzip_decompress(data) ==
    IF data.t = "exc" THEN data
    ELSE IF data.t # "bytes" THEN Exc("TypeError")
    ELSE LET b == data.d
             body == SubSeq(b, 3, Len(b) - 1)
             wellFormed == /\ Len(b) >= 3
                           /\ SubSeq(b, 1, 2) = GzipMagic
                           /\ Len(body) % 2 = 0
                           /\ \A j \in 1..Len(body) : j % 2 = 1 => body[j] >= 1
             out == RunExpand(body, 1)
         IN IF wellFormed /\ Len(out) % 256 = b[Len(b)] THEN B(out) ELSE Exc("BadGzipFile")

\* ------------------------------------------------------------ codec classes

\* A class built by LmdbJson(...) / LmdbCompress(...) is the sequence of the mixins
\* it stacks on Lmdb, outermost first (its method resolution order); Lmdb is <<>>.
Lmdb == <<>>
LmdbJson(classtype) == <<"Json">> \o classtype
LmdbCompress(classtype) == <<"Compress">> \o classtype

Wrap(name, classtype) == IF name = "Json" THEN LmdbJson(classtype) ELSE LmdbCompress(classtype)

\* chain(args): ret = Lmdb; for i in reversed(args): ret = i(ret)
RECURSIVE chainFrom(_, _, _)
chainFrom(args, n, ret) == IF n = 0 THEN ret ELSE chainFrom(args, n - 1, Wrap(args[n], ret))

chain_Unreversed(args) ==
    chainFrom([n \in 1..Len(args) |-> args[Len(args) + 1 - n]], Len(args), Lmdb)

chain(args) == chainFrom(args, Len(args), Lmdb)

\* compresslevel: int = 9, the default of LmdbCompress.__init__
compresslevel == 9

\* cls._pre_value(value): each mixin transforms the value and hands it to super().
RECURSIVE _pre_value(_, _)
_pre_value(cls, value) ==
    IF cls = <<>> THEN to_bytes(value)
    ELSE IF Head(cls) = "Json"
         THEN LET text == json_dumps(value)
              IN _pre_value(Tail(cls), IF IsExc(text) THEN text ELSE B(utf8_encode(text.d)))
    ELSE _pre_value(Tail(cls), gzip_compress(to_bytes(value), compresslevel))

_post_value_Undecoded(cls, value) == value

\* cls._post_value(value): LmdbJson decodes what super() returns, LmdbCompress
\* decompresses before calling super().
RECURSIVE _post_value(_, _)
_post_value(cls, value) ==
    IF cls = <<>> THEN value
    ELSE IF Head(cls) = "Json" THEN json_loads(_post_value(Tail(cls), value))
    ELSE _post_value(Tail(cls), gzip_decompress(value))

_pre_key(key) == to_bytes(key)

_post_key(key) == key

\* lmdbm.open(path, flag, mode, classtype=Lmdb, **kwargs): a list of mixins is
\* composed by chain(), a class is used as it is. classtype is [isList, v].
ClassOf(classtype) == IF classtype.isList THEN chain(classtype.v) ELSE classtype.v

DefaultClass == [isList |-> FALSE, v |-> Lmdb]
ClassList(args) == [isList |-> TRUE, v |-> args]

\* ------------------------------------------------------------ state

VARIABLES
    fs,          \* the store path on disk: [dir, data, lock], which of them exist
    store,       \* the entries of data.mdb: a function from key bytes to value bytes
    env,         \* the Handle and its lmdb.Environment
    call,        \* per thread, the frame of the Handle method it is running
    gen,         \* the generator returned by keys(), and its read transaction
    opened,      \* what the last Lmdb.open did: its flag, outcome and the path before it
    unsafe,      \* a set_mapsize ran while a transaction was active
    crashed,     \* the process died of a read through a stale mapping
    scope,       \* the with statement around the Handle, and the env.close() calls in it
    c_pc,        \* codec run: "new", "built", "stored", "read" or "raised"
    c_classtype, \* codec run: the classtype argument given to open
    c_cls,       \* codec run: the class of the Handle
    c_value,     \* codec run: the value given to __setitem__
    c_stored,    \* codec run: the bytes handed to txn.put
    c_out        \* codec run: the value __getitem__ returns

codecVars == <<c_pc, c_classtype, c_cls, c_value, c_stored, c_out>>
mainVars == <<fs, store, env, call, gen, opened, unsafe, crashed, scope>>
vars == <<mainVars, codecVars>>

\* ------------------------------------------------------------ bounds and inputs

\* for _i in range(12): the attempts of one __setitem__ / update call
MaxTries == 12

\* One element of a modelled byte string stands for Chunk bytes on disk: the
\* tests write b"asd" * 1000, which is <<97, 115, 100>> here.
Chunk == 1000

\* map_size arguments: one byte, the tests' 1024 bytes and the default 2**20.
MapSizes == {1, 1024, 2^20}

Flags == {"r", "w", "a", "c", "n", "x"}

Threads == {"main", "worker"}
\* The thread of a program that has one.
MainThread == {"main"}

KeyArgs == {B(<<97>>), S(<<98>>), I(7)}
ValueArgs == {B(<<97, 115, 100>>), B(<<120>>), I(5)}
KeyBytes == {<<97>>, <<98>>}

HandleClassTypes == {DefaultClass, ClassList(<<"Json", "Compress">>)}

\* The autogrow and logger arguments of open, as <<autogrow, a logger is given>>.
GrowArgs == {<<TRUE, TRUE>>, <<TRUE, FALSE>>, <<FALSE, TRUE>>}

\* The arguments of update: __other is a dict, a list of pairs or a generator of
\* pairs ([kind, items]); kwds is a sequence of <<name, value>>.
Batch(kind, items) == [kind |-> kind, items |-> items]
NoBatch == Batch("pairs", <<>>)
OtherArgs ==
    {NoBatch,
     Batch("iter", <<<<S(<<97>>), B(<<97, 115, 100>>)>>, <<S(<<98>>), B(<<97, 115, 100>>)>>>>),
     Batch("mapping", <<<<B(<<97>>), B(<<120>>)>>, <<S(<<97>>), B(<<97, 115, 100>>)>>>>),
     Batch("mapping", <<<<S(<<97>>), I(5)>>, <<S(<<98>>), I(7)>>>>),
     Batch("pairs", <<<<B(<<97>>), B(<<120>>)>>, <<I(7), B(<<120>>)>>>>)}
DefaultArgs == {PyNone, B(<<100>>)}
KwdsArgs == {<<>>, <<<<S(<<98>>), B(<<120>>)>>>>}

\* ------------------------------------------------------------ the Engine (lmdb)

EmptyStore == [k \in {} |-> <<>>]

Put(st, k, v) == [x \in (DOMAIN st) \cup {k} |-> IF x = k THEN v ELSE st[x]]
Remove(st, k) == [x \in (DOMAIN st) \ {k} |-> st[x]]

EntrySize(k, v) == Chunk * (Len(k) + Len(v))

RECURSIVE SpaceOf(_, _)
SpaceOf(st, keys) ==
    IF keys = {} THEN 0
    ELSE LET k == CHOOSE x \in keys : TRUE
         IN EntrySize(k, st[k]) + SpaceOf(st, keys \ {k})

\* The bytes of the map the committed entries occupy.
Space(st) == SpaceOf(st, DOMAIN st)

\* A write transaction [st, used, full]: the entries it would commit, the bytes of
\* the map it needs (the committed entries plus every page it has written: pages
\* are copied on write and the old ones are freed only by the commit), and whether
\* a write found the map full (lmdb.MapFullError).
BeginWrite(st) == [st |-> st, used |-> Space(st), full |-> FALSE]

\* txn.put(k, v)
TxnPut(txn, k, v, map_size) ==
    IF txn.full THEN txn
    ELSE IF txn.used + EntrySize(k, v) > map_size THEN [txn EXCEPT !.full = TRUE]
    ELSE [st |-> Put(txn.st, k, v), used |-> txn.used + EntrySize(k, v), full |-> FALSE]

TxnDelete_KeepsKey(txn, k, map_size) == txn

\* txn.delete(k) / txn.pop(k): an absent key writes nothing.
TxnDelete(txn, k, map_size) ==
    IF txn.full \/ k \notin DOMAIN txn.st THEN txn
    ELSE IF txn.used + Chunk * Len(k) > map_size THEN [txn EXCEPT !.full = TRUE]
    ELSE [st |-> Remove(txn.st, k), used |-> txn.used + Chunk * Len(k), full |-> FALSE]

RECURSIVE putmulti_SkipFull(_, _, _, _)
putmulti_SkipFull(txn, pairs, i, map_size) ==
    IF i > Len(pairs) THEN txn
    ELSE LET put == TxnPut(txn, pairs[i][1], pairs[i][2], map_size)
         IN putmulti_SkipFull(IF put.full THEN txn ELSE put, pairs, i + 1, map_size)

RECURSIVE putmulti_NoOverwrite(_, _, _, _)
putmulti_NoOverwrite(txn, pairs, i, map_size) ==
    IF i > Len(pairs) THEN txn
    ELSE putmulti_NoOverwrite(IF pairs[i][1] \in DOMAIN txn.st THEN txn
                              ELSE TxnPut(txn, pairs[i][1], pairs[i][2], map_size),
                              pairs, i + 1, map_size)

\* curs.putmulti(pairs): the pairs are put in order, a later pair overwriting.
RECURSIVE putmulti(_, _, _, _)
putmulti(txn, pairs, i, map_size) ==
    IF i > Len(pairs) THEN txn
    ELSE putmulti(TxnPut(txn, pairs[i][1], pairs[i][2], map_size), pairs, i + 1, map_size)

\* lmdb.open(path, map_size, readonly, create): [ok, fs, store, map_size]. A missing
\* store is created only with create=True on a writable open; the map is never
\* smaller than the data already in the file.
lmdb_open(f, st, map_size, readonly, create) ==
    IF f.dir /\ f.data
    THEN [ok |-> TRUE, fs |-> [f EXCEPT !.lock = TRUE], store |-> st,
          map_size |-> IF map_size < Space(st) THEN Space(st) ELSE map_size]
    ELSE IF ~readonly /\ (create \/ f.dir)
    THEN [ok |-> TRUE, fs |-> [dir |-> TRUE, data |-> TRUE, lock |-> TRUE],
          store |-> EmptyStore, map_size |-> map_size]
    ELSE [ok |-> FALSE, fs |-> f, store |-> st, map_size |-> 0]

\* ------------------------------------------------------------ files

NoFiles == [dir |-> FALSE, data |-> FALSE, lock |-> FALSE]

\* One unlink()/rmdir() under MissingOk: [ok, fs]; a missing file is an error
\* (FileNotFoundError) unless missing_ok.
RemoveFile(r, name, missing_ok) ==
    IF ~r.ok THEN r
    ELSE IF r.fs[name] THEN [ok |-> TRUE, fs |-> [r.fs EXCEPT ![name] = FALSE]]
    ELSE [ok |-> missing_ok, fs |-> r.fs]

remove_lmdbm_KeepsData(f, missing_ok) ==
    RemoveFile(RemoveFile([ok |-> TRUE, fs |-> f], "lock", missing_ok), "dir", missing_ok)

remove_lmdbm(f, missing_ok) ==
    RemoveFile(RemoveFile(RemoveFile([ok |-> TRUE, fs |-> f], "data", missing_ok),
                          "lock", missing_ok),
               "dir", missing_ok)

\* ------------------------------------------------------------ the Handle

NoEnv == [state |-> "none", readonly |-> FALSE, autogrow |-> TRUE, logger |-> FALSE,
          cls |-> Lmdb, map_size |-> 0]

NoOpen == [flag |-> "", result |-> "none", fs |-> NoFiles, store |-> EmptyStore]

\* No with statement yet. Inside one, closes counts the times the environment went
\* from open to closed and calls the calls of env.close(); once it is left, raised
\* is the exception that left the body and propagated the one the caller sees.
NoScope == [state |-> "none", closes |-> 0, calls |-> 0, raised |-> "", propagated |-> ""]

NoGen == [state |-> "none", snap |-> EmptyStore, valid |-> TRUE, out |-> <<>>]

\* A frame holds the arguments and locals of the method (key, value, other, kwds, k,
\* v, i, pairs_other, pairs_kwds, new_map_size), where it stands (pc), how it ended
\* (result, ret), and a record of the call: the items update was given (batch), the
\* store and map size the call started from,
\* the write transactions it began (txns), the MapFullErrors it caught (fulls), the
\* set_mapsize calls (grows) and logger calls (logs) it made, and whether the Engine
\* failed it with an error other than map-full (faulted).
IdleFrame ==
    [op |-> "none", pc |-> "idle", key |-> PyNone, value |-> PyNone,
     other |-> NoBatch, kwds |-> <<>>, batch |-> <<>>, k |-> <<>>, v |-> <<>>, i |-> 0,
     pairs_other |-> <<>>, pairs_kwds |-> <<>>, new_map_size |-> 0,
     result |-> "none", ret |-> PyNone,
     pre_store |-> EmptyStore, pre_map |-> 0, txns |-> 0, fulls |-> 0, grows |-> 0,
     logs |-> 0, faulted |-> FALSE]

\* A thread may start a method of the Handle when it is running none.
Ready(t) == ~crashed /\ env.state # "none" /\ call[t].pc \in {"idle", "done"}

\* The frame of a method that starts now.
Enter(op) == [IdleFrame EXCEPT !.op = op, !.pre_store = store, !.pre_map = env.map_size]

\* The frame of a method that ends now, returning ret or raising result.
Leave(f, result, ret) == [f EXCEPT !.pc = "done", !.result = result, !.ret = ret]

Init ==
    /\ fs = NoFiles
    /\ store = EmptyStore
    /\ env = NoEnv
    /\ call = [t \in Threads |-> IdleFrame]
    /\ gen = NoGen
    /\ opened = NoOpen
    /\ unsafe = FALSE
    /\ crashed = FALSE
    /\ scope = NoScope
    /\ c_pc = "off"
    /\ c_classtype = DefaultClass
    /\ c_value = PyNone
    /\ c_cls = Lmdb
    /\ c_stored = PyNone
    /\ c_out = PyNone

OpenResult_CreatesForW(flag, map_size) ==
    IF flag = "r" THEN lmdb_open(fs, store, map_size, TRUE, FALSE)
    ELSE IF flag \in {"w", "a", "c"} THEN lmdb_open(fs, store, map_size, FALSE, TRUE)
    ELSE IF flag = "n"
         THEN LET removed == remove_lmdbm(fs, TRUE).fs
              IN lmdb_open(removed, IF removed.data THEN store ELSE EmptyStore, map_size, FALSE, TRUE)
    ELSE [ok |-> FALSE, fs |-> fs, store |-> store, map_size |-> 0]

\* Lmdb.open(path, flag, map_size, autogrow=..., logger=...) through lmdbm.open, which
\* resolves classtype. The whole classmethod: remove_lmdbm for "n", lmdb.open, cls(env).
OpenResult(flag, map_size) ==
    IF flag = "r" THEN lmdb_open(fs, store, map_size, TRUE, FALSE)
    ELSE IF flag = "w" THEN lmdb_open(fs, store, map_size, FALSE, FALSE)
    ELSE IF flag = "a" \/ flag = "c" THEN lmdb_open(fs, store, map_size, FALSE, TRUE)
    ELSE IF flag = "n"
         THEN LET removed == remove_lmdbm(fs, TRUE).fs
              IN lmdb_open(removed, IF removed.data THEN store ELSE EmptyStore, map_size, FALSE, TRUE)
    ELSE [ok |-> FALSE, fs |-> fs, store |-> store, map_size |-> 0]

Open(flag, map_size, autogrow, logger, classtype) ==
    /\ ~crashed
    /\ env.state # "open"
    /\ \A t \in Threads : call[t].pc \in {"idle", "done"}
    /\ LET r == OpenResult(flag, map_size)
       IN /\ fs' = r.fs
          /\ store' = r.store
          /\ env' = IF r.ok
                    THEN [state |-> "open", readonly |-> flag = "r", autogrow |-> autogrow,
                          logger |-> logger, cls |-> ClassOf(classtype), map_size |-> r.map_size]
                    ELSE env
          /\ opened' = [flag |-> flag,
                        result |-> IF r.ok THEN "ok"
                                   ELSE IF flag \in {"r", "w", "a", "c", "n"} THEN "Error"
                                   ELSE "ValueError",
                        fs |-> fs, store |-> store]
          /\ gen' = IF r.ok THEN NoGen ELSE gen
          /\ scope' = IF r.ok THEN NoScope ELSE scope
    /\ call' = [t \in Threads |-> IdleFrame]
    /\ UNCHANGED <<unsafe, crashed, codecVars>>

\* The calls of close() made in the body of one with statement.
MaxCloses == 3

\* The with statement's record of one more env.close(): the Engine closes an open
\* environment and does nothing to a closed one.
Closing(sc) ==
    IF sc.state # "in" THEN sc
    ELSE [sc EXCEPT !.calls = @ + 1, !.closes = IF env.state = "open" THEN @ + 1 ELSE @]

\* Lmdb.close(): env.close(), which also ends the transactions still open on it.
\* Nothing reads the settings of a closed Handle: every method fails at env.begin.
Close(t) ==
    /\ Ready(t)
    /\ scope.state = "in" => scope.calls < MaxCloses
    /\ env' = [NoEnv EXCEPT !.state = "closed"]
    /\ gen' = IF gen.state = "open" THEN [gen EXCEPT !.state = "stale"] ELSE gen
    /\ scope' = Closing(scope)
    /\ call' = [call EXCEPT ![t] = Leave(Enter("close"), "ok", PyNone)]
    /\ opened' = NoOpen
    /\ UNCHANGED <<fs, store, unsafe, crashed, codecVars>>

\* Lmdb.__enter__(), called by "with Lmdb.open(...) as db:" on the Handle that open
\* has just returned: return self.
ScopeEnter(t) ==
    /\ Ready(t)
    /\ opened.result = "ok" /\ scope.state # "in"
    /\ scope' = [NoScope EXCEPT !.state = "in"]
    /\ opened' = NoOpen
    /\ UNCHANGED <<fs, store, env, call, gen, unsafe, crashed, codecVars>>

\* The exceptions that may leave the body of the with statement now: none, the one
\* the last call on the Handle raised, or one the body raises itself.
BodyRaises(t) ==
    {"", "RuntimeError"}
      \cup (IF call[t].pc = "done" /\ call[t].result \notin {"ok", "none"} THEN {call[t].result} ELSE {})

ScopeExit_NoClose(t) ==
    /\ Ready(t)
    /\ scope.state = "in"
    /\ \E raised \in BodyRaises(t) :
          scope' = [scope EXCEPT !.state = "left", !.raised = raised, !.propagated = raised]
    /\ call' = [call EXCEPT ![t] = Leave(Enter("exit"), "ok", PyNone)]
    /\ opened' = NoOpen
    /\ UNCHANGED <<fs, store, env, gen, unsafe, crashed, codecVars>>

\* Lmdb.__exit__(*args): self.close(), and None is returned, so that the exception
\* which left the body, if any, goes on to the caller of the with statement.
ScopeExit(t) ==
    /\ Ready(t)
    /\ scope.state = "in"
    /\ env' = [NoEnv EXCEPT !.state = "closed"]
    /\ gen' = IF gen.state = "open" THEN [gen EXCEPT !.state = "stale"] ELSE gen
    /\ \E raised \in BodyRaises(t) :
          scope' = [Closing(scope) EXCEPT !.state = "left", !.raised = raised, !.propagated = raised]
    /\ call' = [call EXCEPT ![t] = Leave(Enter("exit"), "ok", PyNone)]
    /\ opened' = NoOpen
    /\ UNCHANGED <<fs, store, unsafe, crashed, codecVars>>

\* remove_lmdbm(path, missing_ok), called by the tests once the Handle is closed;
\* the calls made on that Handle are over.
RemoveStore(missing_ok) ==
    /\ ~crashed
    /\ env.state = "closed"
    /\ \A t \in Threads : call[t].pc \in {"idle", "done"}
    /\ fs' = remove_lmdbm(fs, missing_ok).fs
    /\ store' = IF fs'.data THEN store ELSE EmptyStore
    /\ call' = [t \in Threads |-> IdleFrame]
    /\ opened' = NoOpen
    /\ UNCHANGED <<env, gen, unsafe, crashed, scope, codecVars>>

\* What env.begin(write=...) raises before any work: the environment is closed, or
\* it is read-only and a write transaction is asked for (lmdb.Error in both cases).
BeginFails(write) == env.state # "open" \/ (write /\ env.readonly)

GetResult_DecodeAsKeyError(e, st, key) ==
    LET k == _pre_key(key)
    IN IF e.state # "open" THEN Exc("Error")
       ELSE IF IsExc(k) THEN k
       ELSE IF k.d \notin DOMAIN st \/ IsExc(_post_value(e.cls, B(st[k.d]))) THEN Exc("KeyError")
       ELSE _post_value(e.cls, B(st[k.d]))

\* __getitem__(key): one read transaction, KeyError when absent, then _post_value.
GetResult(e, st, key) ==
    LET k == _pre_key(key)
    IN IF e.state # "open" THEN Exc("Error")
       ELSE IF IsExc(k) THEN k
       ELSE IF k.d \notin DOMAIN st THEN Exc("KeyError")
       ELSE _post_value(e.cls, B(st[k.d]))

ResultOf(v) == IF IsExc(v) THEN v.d ELSE "ok"

GetItem(t, key) ==
    /\ Ready(t)
    /\ LET r == GetResult(env, store, key)
       IN call' = [call EXCEPT ![t] = Leave([Enter("get") EXCEPT !.key = key], ResultOf(r), r)]
    /\ opened' = NoOpen
    /\ UNCHANGED <<fs, store, env, gen, unsafe, crashed, scope, codecVars>>

\* get(key, default) of Mapping, which Lmdb inherits: self[key], and default when
\* that raises KeyError; any other exception passes through.
GetDefault(t, key, default) ==
    /\ Ready(t)
    /\ LET r == GetResult(env, store, key)
           ret == IF r = Exc("KeyError") THEN default ELSE r
       IN call' = [call EXCEPT ![t] =
                     Leave([Enter("getdefault") EXCEPT !.key = key, !.value = default],
                           ResultOf(ret), ret)]
    /\ opened' = NoOpen
    /\ UNCHANGED <<fs, store, env, gen, unsafe, crashed, scope, codecVars>>

\* __setitem__(key, value), lines 188-189: k and v are computed before the loop.
SetItem(t, key, value) ==
    /\ Ready(t)
    /\ LET k == _pre_key(key)
           v == IF IsExc(k) THEN k ELSE _pre_value(env.cls, value)
           f == [Enter("set") EXCEPT !.key = key, !.value = value]
       IN call' = [call EXCEPT ![t] =
                     IF IsExc(v) THEN Leave(f, v.d, PyNone)
                     ELSE [f EXCEPT !.pc = "txn", !.k = k.d, !.v = v.d]]
    /\ opened' = NoOpen
    /\ UNCHANGED <<fs, store, env, gen, unsafe, crashed, scope, codecVars>>

OnEngineError_Retried(f) ==
    IF ~env.autogrow THEN Leave([f EXCEPT !.faulted = TRUE], "SizeError", PyNone)
    ELSE [f EXCEPT !.faulted = TRUE, !.pc = "grow"]

\* An lmdb.Error other than MapFullError raised inside a write transaction: no
\* except clause catches it, the with block aborts the transaction, the method ends.
OnEngineError(f) == Leave([f EXCEPT !.faulted = TRUE], "Error", PyNone)

\* except lmdb.MapFullError, in __setitem__ and in update alike: without autogrow
\* SizeError is raised at once; with it the method goes on to grow the map.
OnMapFull_AlwaysGrow(f) == [f EXCEPT !.fulls = @ + 1, !.pc = "grow"]

OnMapFull(f) ==
    IF ~env.autogrow THEN Leave([f EXCEPT !.fulls = @ + 1], "SizeError", PyNone)
    ELSE [f EXCEPT !.fulls = @ + 1, !.pc = "grow"]

\* What the caller gets when __setitem__ has returned: None from db[key] = value,
\* and default from setdefault, whose last statement is return default.
SetReturns(f) == IF f.op = "setdefault" THEN f.value ELSE PyNone

\* setdefault(key, default) of MutableMapping, which Lmdb inherits without
\* overriding: try: return self[key]; except KeyError: self[key] = default; return
\* default. This step is the self[key] of the try; when it raises KeyError the call
\* goes on into __setitem__, whose passes are SetAttempt.
SetDefault(t, key, default) ==
    /\ Ready(t)
    /\ LET r == GetResult(env, store, key)
           k == _pre_key(key)
           v == IF IsExc(k) THEN k ELSE _pre_value(env.cls, default)
           f == [Enter("setdefault") EXCEPT !.key = key, !.value = default]
       IN call' = [call EXCEPT ![t] =
                     IF r # Exc("KeyError") THEN Leave(f, ResultOf(r), r)
                     ELSE IF IsExc(v) THEN Leave(f, v.d, PyNone)
                     ELSE [f EXCEPT !.pc = "txn", !.k = k.d, !.v = v.d]]
    /\ opened' = NoOpen
    /\ UNCHANGED <<fs, store, env, gen, unsafe, crashed, scope, codecVars>>

\* One pass of the loop body of __setitem__: a write transaction that puts (k, v).
\* It commits and returns, or raises MapFullError, which is caught: SizeError
\* without autogrow, the grow steps with it. Any other lmdb.Error passes through.
SetAttempt(t) ==
    /\ ~crashed
    /\ call[t].op \in {"set", "setdefault"} /\ call[t].pc = "txn" /\ call[t].i < MaxTries
    /\ LET f == [call[t] EXCEPT !.txns = @ + 1]
           txn == TxnPut(BeginWrite(store), f.k, f.v, env.map_size)
       IN \/ /\ BeginFails(TRUE)
             /\ call' = [call EXCEPT ![t] = Leave(f, "Error", PyNone)]
             /\ UNCHANGED store
          \/ /\ ~BeginFails(TRUE)
             /\ call' = [call EXCEPT ![t] = OnEngineError(f)]
             /\ UNCHANGED store
          \/ /\ ~BeginFails(TRUE) /\ ~txn.full
             /\ store' = txn.st
             /\ call' = [call EXCEPT ![t] = Leave(f, "ok", SetReturns(f))]
          \/ /\ ~BeginFails(TRUE) /\ txn.full
             /\ call' = [call EXCEPT ![t] = OnMapFull(f)]
             /\ UNCHANGED store
    /\ UNCHANGED <<fs, env, gen, opened, unsafe, crashed, scope, codecVars>>

\* The pairs a list comprehension of update builds from items: [ok, pairs, exc].
RECURSIVE Materialize(_, _, _, _)
Materialize(cls, items, i, acc) ==
    IF i > Len(items) THEN [ok |-> TRUE, pairs |-> acc, exc |-> ""]
    ELSE LET k == _pre_key(items[i][1])
             v == IF IsExc(k) THEN k ELSE _pre_value(cls, items[i][2])
         IN IF IsExc(v) THEN [ok |-> FALSE, pairs |-> acc, exc |-> v.d]
            ELSE Materialize(cls, items, i + 1, Append(acc, <<k.d, v.d>>))

PairsOr_Recomputed(pairs, cls, items) == Materialize(cls, items, 1, <<>>)

\* pairs = pairs or [...]: a list saved by an earlier pass is kept when it is not
\* empty, and the comprehension runs (again) when it is None or empty.
PairsOr(pairs, cls, items) ==
    IF pairs # <<>> THEN [ok |-> TRUE, pairs |-> pairs, exc |-> ""]
    ELSE Materialize(cls, items, 1, <<>>)

\* update(__other, **kwds): nothing is computed before the loop.
Update(t, other, kwds) ==
    /\ Ready(t)
    /\ call' = [call EXCEPT ![t] = [Enter("update") EXCEPT !.other = other, !.kwds = kwds,
                                                              !.batch = other.items \o kwds, !.pc = "txn"]]
    /\ opened' = NoOpen
    /\ UNCHANGED <<fs, store, env, gen, unsafe, crashed, scope, codecVars>>

\* One pass of the loop body of update: inside one write transaction and cursor,
\* pairs_other = pairs_other or [...], putmulti, pairs_kwds = pairs_kwds or [...],
\* putmulti, return. The three branches on the type of __other build the same list;
\* a generator is left exhausted by the comprehension that read it.
UpdateAttempt(t) ==
    /\ ~crashed
    /\ call[t].op = "update" /\ call[t].pc = "txn" /\ call[t].i < MaxTries
    /\ \E f0 \in {[call[t] EXCEPT !.txns = @ + 1]} :
       \E mo \in {PairsOr(f0.pairs_other, env.cls, f0.other.items)} :
       \E f1 \in {[f0 EXCEPT !.pairs_other = IF mo.ok THEN mo.pairs ELSE @,
                             !.other = IF f0.pairs_other = <<>> /\ f0.other.kind = "iter"
                                       THEN Batch("iter", <<>>) ELSE @]} :
       \E t1 \in {putmulti(BeginWrite(store), mo.pairs, 1, env.map_size)} :
       \E mk \in {PairsOr(f1.pairs_kwds, env.cls, f1.kwds)} :
       \E t2 \in {putmulti(t1, mk.pairs, 1, env.map_size)} :
       \* where the pass ends: the first exception raised, or "" for the commit
       \E exc \in {IF ~mo.ok THEN mo.exc
                   ELSE IF t1.full THEN "MapFullError"
                   ELSE IF ~mk.ok THEN mk.exc
                   ELSE IF t2.full THEN "MapFullError"
                   ELSE ""} :
       \E f \in {IF ~mo.ok \/ t1.full \/ ~mk.ok THEN f1 ELSE [f1 EXCEPT !.pairs_kwds = mk.pairs]} :
          \/ /\ BeginFails(TRUE)
             /\ call' = [call EXCEPT ![t] = Leave(f0, "Error", PyNone)]
             /\ UNCHANGED store
          \/ /\ ~BeginFails(TRUE)
             /\ call' = [call EXCEPT ![t] = OnEngineError(f0)]
             /\ UNCHANGED store
          \/ /\ ~BeginFails(TRUE) /\ exc = ""
             /\ store' = t2.st
             /\ call' = [call EXCEPT ![t] = Leave(f, "ok", PyNone)]
          \/ /\ ~BeginFails(TRUE) /\ exc \notin {"", "MapFullError"}
             /\ call' = [call EXCEPT ![t] = Leave(f, exc, PyNone)]
             /\ UNCHANGED store
          \/ /\ ~BeginFails(TRUE) /\ exc = "MapFullError"
             /\ call' = [call EXCEPT ![t] = OnMapFull(f)]
             /\ UNCHANGED store
    /\ UNCHANGED <<fs, env, gen, opened, unsafe, crashed, scope, codecVars>>

ReadMapSize_NoDouble(t) ==
    /\ ~crashed
    /\ call[t].pc = "grow"
    /\ call' = [call EXCEPT ![t] = [@ EXCEPT !.new_map_size = env.map_size, !.pc = "resize"]]
    /\ UNCHANGED <<fs, store, env, gen, opened, unsafe, crashed, scope, codecVars>>

\* new_map_size = self.map_size * 2 (env.info()["map_size"])
ReadMapSize(t) ==
    /\ ~crashed
    /\ call[t].pc = "grow"
    /\ call' = [call EXCEPT ![t] = [@ EXCEPT !.new_map_size = env.map_size * 2, !.pc = "resize"]]
    /\ UNCHANGED <<fs, store, env, gen, opened, unsafe, crashed, scope, codecVars>>

\* A transaction other than the caller's own (already aborted) is active.
TxnActive == gen.state = "open"

\* self.map_size = new_map_size (env.set_mapsize), the logger call, and the next
\* iteration of the loop. The mapping of a transaction that is still active is
\* replaced under it.
SetMapSize(t) ==
    /\ ~crashed
    /\ call[t].pc = "resize"
    /\ env' = [env EXCEPT !.map_size = call[t].new_map_size]
    /\ unsafe' = (unsafe \/ TxnActive)
    /\ gen' = IF TxnActive THEN [gen EXCEPT !.valid = FALSE] ELSE gen
    /\ call' = [call EXCEPT ![t] = [@ EXCEPT !.pc = "txn", !.i = @ + 1, !.grows = @ + 1,
                                             !.logs = IF env.logger THEN @ + 1 ELSE @]]
    /\ UNCHANGED <<fs, store, opened, crashed, scope, codecVars>>

RaiseGrowError_AsSizeError(t) ==
    /\ ~crashed
    /\ call[t].pc = "txn" /\ call[t].i = MaxTries
    /\ call' = [call EXCEPT ![t] = Leave(@, "SizeError", PyNone)]
    /\ UNCHANGED <<fs, store, env, gen, opened, unsafe, crashed, scope, codecVars>>

\* raise GrowError(...) after the loop.
RaiseGrowError(t) ==
    /\ ~crashed
    /\ call[t].pc = "txn" /\ call[t].i = MaxTries
    /\ call' = [call EXCEPT ![t] = Leave(@, "GrowError", PyNone)]
    /\ UNCHANGED <<fs, store, env, gen, opened, unsafe, crashed, scope, codecVars>>

\* __delitem__(key): one write transaction around txn.delete; nothing is caught.
DelItem(t, key) ==
    /\ Ready(t)
    /\ LET f == [Enter("delete") EXCEPT !.key = key, !.txns = 1]
           k == _pre_key(key)
           txn == TxnDelete(BeginWrite(store), k.d, env.map_size)
       IN \/ /\ BeginFails(TRUE)
             /\ call' = [call EXCEPT ![t] = Leave(f, "Error", PyNone)]
             /\ UNCHANGED store
          \/ /\ ~BeginFails(TRUE)
             /\ call' = [call EXCEPT ![t] = OnEngineError(f)]
             /\ UNCHANGED store
          \/ /\ ~BeginFails(TRUE) /\ IsExc(k)
             /\ call' = [call EXCEPT ![t] = Leave(f, k.d, PyNone)]
             /\ UNCHANGED store
          \/ /\ ~BeginFails(TRUE) /\ ~IsExc(k) /\ txn.full
             /\ call' = [call EXCEPT ![t] = Leave([f EXCEPT !.fulls = 1], "MapFullError", PyNone)]
             /\ UNCHANGED store
          \/ /\ ~BeginFails(TRUE) /\ ~IsExc(k) /\ ~txn.full
             /\ store' = txn.st
             /\ call' = [call EXCEPT ![t] = Leave(f, "ok", PyNone)]
    /\ opened' = NoOpen
    /\ UNCHANGED <<fs, env, gen, unsafe, crashed, scope, codecVars>>

\* pop(key, default): txn.pop in one write transaction, which commits when its
\* with block ends; then default for an absent key, _post_value(value) otherwise.
Pop(t, key, default) ==
    /\ Ready(t)
    /\ LET f == [Enter("pop") EXCEPT !.key = key, !.value = default, !.txns = 1]
           k == _pre_key(key)
           txn == TxnDelete(BeginWrite(store), k.d, env.map_size)
           ret == IF k.d \in DOMAIN store THEN _post_value(env.cls, B(store[k.d])) ELSE default
       IN \/ /\ BeginFails(TRUE)
             /\ call' = [call EXCEPT ![t] = Leave(f, "Error", PyNone)]
             /\ UNCHANGED store
          \/ /\ ~BeginFails(TRUE)
             /\ call' = [call EXCEPT ![t] = OnEngineError(f)]
             /\ UNCHANGED store
          \/ /\ ~BeginFails(TRUE) /\ IsExc(k)
             /\ call' = [call EXCEPT ![t] = Leave(f, k.d, PyNone)]
             /\ UNCHANGED store
          \/ /\ ~BeginFails(TRUE) /\ ~IsExc(k) /\ txn.full
             /\ call' = [call EXCEPT ![t] = Leave([f EXCEPT !.fulls = 1], "MapFullError", PyNone)]
             /\ UNCHANGED store
          \/ /\ ~BeginFails(TRUE) /\ ~IsExc(k) /\ ~txn.full
             /\ store' = txn.st
             /\ call' = [call EXCEPT ![t] = Leave(f, ResultOf(ret), ret)]
    /\ opened' = NoOpen
    /\ UNCHANGED <<fs, env, gen, unsafe, crashed, scope, codecVars>>

\* Byte strings in the order of the Engine's cursor.
RECURSIVE BytesLess(_, _)
BytesLess(a, b) ==
    IF b = <<>> THEN FALSE
    ELSE IF a = <<>> THEN TRUE
    ELSE IF Head(a) # Head(b) THEN Head(a) < Head(b)
    ELSE BytesLess(Tail(a), Tail(b))

\* __contains__(key): a read transaction around txn.get(self._pre_key(key)); True
\* when the Engine returned a value.
Contains(t, key) ==
    /\ Ready(t)
    /\ LET k == _pre_key(key)
           r == IF env.state # "open" THEN Exc("Error")
                ELSE IF IsExc(k) THEN k
                ELSE PyBool(k.d \in DOMAIN store)
       IN call' = [call EXCEPT ![t] = Leave([Enter("contains") EXCEPT !.key = key], ResultOf(r), r)]
    /\ opened' = NoOpen
    /\ UNCHANGED <<fs, store, env, gen, unsafe, crashed, scope, codecVars>>

\* __len__(): txn.stat()["entries"], the number of keys in the store.
__len__(st) == Cardinality(DOMAIN st)

\* keys(): calling a generator function runs none of its body.
Keys(t) ==
    /\ Ready(t)
    /\ gen.state \in {"none", "done"}
    /\ gen' = [NoGen EXCEPT !.state = "new"]
    /\ call' = [call EXCEPT ![t] = Leave(Enter("keys"), "ok", PyNone)]
    /\ opened' = NoOpen
    /\ UNCHANGED <<fs, store, env, unsafe, crashed, scope, codecVars>>

\* The keys the cursor of the generator has not passed yet.
Remaining(g) ==
    {k \in DOMAIN g.snap : g.out = <<>> \/ BytesLess(g.out[Len(g.out)], k)}

\* What the generator does once its cursor stands on the snapshot snap: it yields
\* the next key, or leaves the with block (the read transaction ends) and stops.
Advance(g, snap) ==
    LET g1 == [g EXCEPT !.state = "open", !.snap = snap]
        rem == Remaining(g1)
    IN IF rem = {} THEN [g1 EXCEPT !.state = "done"]
       ELSE [g1 EXCEPT !.out = Append(@, _post_key(CHOOSE k \in rem : \A x \in rem : x = k \/ BytesLess(k, x)))]

\* The longest run of keys a generator is followed for after its mapping was replaced.
MaxYield == 3

\* next() on the generator of keys(): the first call begins the read transaction
\* (lmdb.Error on a closed environment). A cursor whose mapping was replaced by
\* set_mapsize reads freed memory: it may go on as before, yield any bytes, or
\* end the process.
GenNext(t) ==
    /\ Ready(t)
    /\ \/ /\ gen.state = "new" /\ env.state = "open"
          /\ gen' = Advance(gen, store)
          /\ UNCHANGED crashed
       \/ /\ gen.state = "new" /\ env.state # "open"
          /\ gen' = [gen EXCEPT !.state = "done"]
          /\ UNCHANGED crashed
       \/ /\ gen.state = "open"
          /\ gen' = Advance(gen, gen.snap)
          /\ UNCHANGED crashed
       \/ /\ gen.state = "open" /\ ~gen.valid /\ Len(gen.out) < MaxYield
          /\ \E k \in KeyBytes : gen' = [gen EXCEPT !.out = Append(@, k)]
          /\ UNCHANGED crashed
       \/ /\ gen.state = "open" /\ ~gen.valid
          /\ crashed' = TRUE
          /\ UNCHANGED gen
       \/ /\ gen.state = "stale"
          /\ gen' = [gen EXCEPT !.state = "done"]
          /\ UNCHANGED crashed
    /\ opened' = NoOpen
    /\ UNCHANGED <<fs, store, env, call, unsafe, scope, codecVars>>

\* The generator is closed or collected before it is exhausted: its with block
\* is left and the read transaction ends.
GenClose(t) ==
    /\ Ready(t)
    /\ gen.state \in {"new", "open", "stale"}
    /\ gen' = [gen EXCEPT !.state = "done"]
    /\ opened' = NoOpen
    /\ UNCHANGED <<fs, store, env, call, unsafe, crashed, scope, codecVars>>

Next ==
    \/ \E flag \in Flags, map_size \in MapSizes, grow \in GrowArgs, classtype \in HandleClassTypes :
          Open(flag, map_size, grow[1], grow[2], classtype)
    \/ \E missing_ok \in BOOLEAN : RemoveStore(missing_ok)
    \/ \E t \in MainThread :
          \/ Close(t)
          \/ \E key \in KeyArgs : GetItem(t, key)
          \/ \E key \in KeyArgs, value \in ValueArgs : SetItem(t, key, value)
          \/ SetAttempt(t)
          \/ \E other \in OtherArgs, kwds \in KwdsArgs : Update(t, other, kwds)
          \/ UpdateAttempt(t)
          \/ ReadMapSize(t)
          \/ SetMapSize(t)
          \/ RaiseGrowError(t)
          \/ \E key \in KeyArgs : DelItem(t, key)
          \/ \E key \in KeyArgs, default \in DefaultArgs : Pop(t, key, default)

Spec == Init /\ [][Next]_vars

\* Writes while a traversal of keys() is under way, on a Handle of the base class.
TraverseNext ==
    \/ \E flag \in {"c", "r"}, map_size \in MapSizes, grow \in GrowArgs :
          Open(flag, map_size, grow[1], grow[2], DefaultClass)
    \/ \E t \in MainThread :
          \/ Close(t)
          \/ \E key \in KeyArgs, value \in ValueArgs : SetItem(t, key, value)
          \/ SetAttempt(t)
          \/ ReadMapSize(t)
          \/ SetMapSize(t)
          \/ RaiseGrowError(t)
          \/ Keys(t)
          \/ GenNext(t)
          \/ GenClose(t)

SpecTraverse == Init /\ [][TraverseNext]_vars

\* Reads of what Handles of other classes have written to the same store.
ReadClassTypes ==
    {DefaultClass, ClassList(<<"Json">>), ClassList(<<"Compress">>), ClassList(<<"Json", "Compress">>)}

ReadNext ==
    \/ \E flag \in {"c", "r"}, classtype \in ReadClassTypes : Open(flag, 2 ^ 20, TRUE, FALSE, classtype)
    \/ \E t \in MainThread :
          \/ Close(t)
          \/ \E key \in KeyArgs, value \in ValueArgs : SetItem(t, key, value)
          \/ SetAttempt(t)
          \/ \E key \in KeyArgs : GetItem(t, key)
          \/ \E key \in KeyArgs, default \in DefaultArgs : GetDefault(t, key, default)

SpecRead == Init /\ [][ReadNext]_vars

\* "with Lmdb.open(...) as db:" around calls on db, an explicit db.close() among them.
ScopeNext ==
    \/ \E flag \in {"c", "r", "x"} :
          scope.state # "in" /\ Open(flag, 2 ^ 20, TRUE, FALSE, DefaultClass)
    \/ \E t \in MainThread :
          \/ ScopeEnter(t)
          \/ ScopeExit(t)
          \/ Close(t)
          \/ \E key \in KeyArgs : GetItem(t, key)
          \/ \E key \in KeyArgs, value \in ValueArgs : SetItem(t, key, value)
          \/ SetAttempt(t)
          \/ \E key \in KeyArgs : DelItem(t, key)

SpecScope == Init /\ [][ScopeNext]_vars

\* Two threads that set keys through one Handle with autogrow and a 1024-byte map.
\* A 3000-byte value needs a map of 4096 bytes, and the map is 2048 bytes or more
\* from the first installed size on, so no call here uses up its 12 attempts and
\* the raise after the loop is never reached from this start.
ThreadKeys == {B(<<97>>), B(<<98>>)}
ThreadValues == {B(<<97, 115, 100>>)}

ThreadsNext ==
    \/ Open("c", 1024, TRUE, FALSE, DefaultClass)
    \/ \E t \in Threads :
          \/ \E key \in ThreadKeys, value \in ThreadValues : SetItem(t, key, value)
          \/ SetAttempt(t)
          \/ ReadMapSize(t)
          \/ SetMapSize(t)

SpecThreads == Init /\ [][ThreadsNext]_vars

\* Two threads that call setdefault and set for one key through one Handle whose
\* 1024-byte map is doubled once for the first value stored.
DefaultKeys == {B(<<97>>)}
DefaultValues == {B(<<120>>), B(<<121>>)}

DefaultNext ==
    \/ Open("c", 1024, TRUE, FALSE, DefaultClass)
    \/ \E t \in Threads :
          \/ \E key \in DefaultKeys, default \in DefaultValues : SetDefault(t, key, default)
          \/ \E key \in DefaultKeys, value \in DefaultValues : SetItem(t, key, value)
          \/ \E key \in DefaultKeys : DelItem(t, key)
          \/ SetAttempt(t)
          \/ ReadMapSize(t)
          \/ SetMapSize(t)

SpecDefault == Init /\ [][DefaultNext]_vars

\* One thread that uses every keyed method and keys() with a text key, the bytes of
\* its utf8 encoding, a second bytes key and an int key, on a Handle opened for
\* writing or read-only. The map of 2^20 bytes holds every value written here, so
\* no write meets MapFullError and the steps that grow the map are never reached.
IdKeys == {S(<<233>>), B(<<195, 169>>), B(<<97>>), I(7)}
IdValues == {B(<<120>>), B(<<121>>)}
IdBatches ==
    {Batch("pairs", <<<<S(<<233>>), B(<<121>>)>>, <<B(<<97>>), B(<<121>>)>>>>),
     Batch("pairs", <<<<B(<<97>>), B(<<120>>)>>, <<I(7), B(<<120>>)>>>>)}

KeysNext ==
    \/ \E flag \in {"c", "r"} : Open(flag, 2^20, TRUE, FALSE, DefaultClass)
    \/ \E t \in MainThread :
          \/ Close(t)
          \/ \E key \in IdKeys : GetItem(t, key)
          \/ \E key \in IdKeys : Contains(t, key)
          \/ \E key \in IdKeys, value \in IdValues : SetItem(t, key, value)
          \/ SetAttempt(t)
          \/ \E other \in IdBatches : Update(t, other, <<>>)
          \/ UpdateAttempt(t)
          \/ \E key \in IdKeys : DelItem(t, key)
          \/ \E key \in IdKeys : Pop(t, key, PyNone)
          \/ Keys(t)
          \/ GenNext(t)
          \/ GenClose(t)

SpecKeys == Init /\ [][KeysNext]_vars


\* ------------------------------------------------------------ codec runs
\* One value taken through a Handle's _pre_value and _post_value, for every
\* class the tests and the documentation build.

ClassTypes ==
    {DefaultClass, ClassList(<<"Json">>), ClassList(<<"Compress">>),
     ClassList(<<"Json", "Compress">>), ClassList(<<"Compress", "Json">>)}

BytesValues == {B(<<>>), B(<<97>>), B(<<97, 97, 98>>), B(<<195, 40>>), B(<<53>>)}
TextValues == {S(<<>>), S(<<97>>), S(<<233>>), S(<<34, 92, 10>>), S(<<50, 52>>)}
AtomValues == {PyNone, PyBool(TRUE), PyBool(FALSE), I(0), I(5), I(0 - 12), I(120)}
ListValues == {PyList(<<>>), PyList(<<I(1), I(5)>>), PyList(<<S(<<97>>), PyList(<<PyNone>>)>>)}
DictValues == {PyDict(<<>>), PyDict(<<<<S(<<97>>), I(52)>>, <<S(<<98>>), I(95)>>>>),
               PyDict(<<<<S(<<101>>), PyList(<<I(1), I(5)>>)>>>>), PyDict(<<<<I(1), I(2)>>>>)}
JsonValues == TextValues \cup AtomValues \cup ListValues \cup DictValues
CodecValues == BytesValues \cup JsonValues \cup {PyList(<<B(<<97>>)>>)}

CodecInit ==
    /\ c_pc = "new"
    /\ c_classtype \in ClassTypes
    /\ c_value \in CodecValues
    /\ c_cls = Lmdb
    /\ c_stored = PyNone
    /\ c_out = PyNone
    /\ fs = NoFiles
    /\ store = EmptyStore
    /\ env = NoEnv
    /\ call = [t \in Threads |-> IdleFrame]
    /\ gen = NoGen
    /\ opened = NoOpen
    /\ unsafe = FALSE
    /\ crashed = FALSE
    /\ scope = NoScope

\* lmdbm.open: the class of the Handle is fixed here.
CodecOpen ==
    /\ c_pc = "new"
    /\ c_cls' = ClassOf(c_classtype)
    /\ c_pc' = "built"
    /\ UNCHANGED <<c_classtype, c_value, c_stored, c_out, mainVars>>

\* __setitem__: v = self._pre_value(value); an exception leaves nothing stored.
CodecSet ==
    /\ c_pc = "built"
    /\ LET v == _pre_value(c_cls, c_value)
       IN /\ c_stored' = v
          /\ c_pc' = IF IsExc(v) THEN "raised" ELSE "stored"
    /\ UNCHANGED <<c_classtype, c_cls, c_value, c_out, mainVars>>

\* __getitem__: return self._post_value(value) for the bytes that were put.
CodecGet ==
    /\ c_pc = "stored"
    /\ c_out' = _post_value(c_cls, c_stored)
    /\ c_pc' = "read"
    /\ UNCHANGED <<c_classtype, c_cls, c_value, c_stored, mainVars>>

CodecNext == CodecOpen \/ CodecSet \/ CodecGet

SpecCodec == CodecInit /\ [][CodecNext]_vars

\* ------------------------------------------------------------ the retry driver

\* The bytes a write transaction putting (k, v) needs in the map, the data already
\* stored included.
SetNeeds(f) == Space(f.pre_store) + EntrySize(f.k, f.v)

\* A __setitem__ that has returned or raised.
SetDone(f) == f.op = "set" /\ f.pc = "done"

\* The key and value of the call are of types its codec accepts.
SetEncodes(f) == ~IsExc(_pre_key(f.key)) /\ ~IsExc(_pre_value(env.cls, f.value))

\* C1: with autogrow enabled, a set(k, v) into a map too small for it succeeds
\* whenever the entry fits after fewer than MaxTries doublings of the initial map
\* size (the Engine failing with nothing but map-full), and a following get(k)
\* returns exactly v.
C1_AutogrowSetSucceeds ==
    \A t \in Threads :
        LET f == call[t]
        IN (/\ SetDone(f)
            /\ env.state = "open" /\ ~env.readonly /\ env.autogrow
            /\ SetEncodes(f) /\ ~f.faulted
            /\ SetNeeds(f) > f.pre_map
            /\ SetNeeds(f) <= f.pre_map * 2 ^ (MaxTries - 1))
           => /\ f.result = "ok"
              /\ f.grows >= 1 /\ f.grows < MaxTries
              /\ f.k \in DOMAIN store /\ store[f.k] = f.v
              /\ GetResult(env, store, f.key) = f.value

\* The test's case: a 1024-byte map and a value of 3000 bytes, which takes two
\* doublings and reads back.
C1_Witness ==
    \E t \in Threads :
        /\ SetDone(call[t]) /\ call[t].result = "ok"
        /\ call[t].pre_map = 1024 /\ Len(call[t].v) * Chunk = 3000
        /\ call[t].grows = 2
        /\ GetResult(env, store, call[t].key) = call[t].value

\* A __setitem__ or update that is running or has ended.
IsWrite(f) == f.op \in {"set", "update"} /\ f.pc # "idle"

\* C2: with autogrow disabled, a set or update whose write transaction reports
\* map-full fails with SizeError (never GrowError) after exactly one attempt: no
\* retry, the map size is unchanged and the logger is not called.
C2_NoAutogrowFailsAtOnce ==
    \A t \in Threads :
        LET f == call[t]
        IN (IsWrite(f) /\ env.state = "open" /\ ~env.autogrow)
           => /\ f.pc \in {"txn", "done"}
              /\ f.txns <= 1 /\ f.grows = 0 /\ f.logs = 0 /\ f.i = 0
              /\ env.map_size = f.pre_map
              /\ f.result # "GrowError"
              /\ f.fulls >= 1 => /\ f.pc = "done" /\ f.result = "SizeError"
                                 /\ f.txns = 1 /\ f.fulls = 1
                                 /\ store = f.pre_store

\* An update refused for size on a Handle that has a logger and no autogrow.
C2_Witness ==
    \E t \in Threads :
        /\ call[t].op = "update" /\ call[t].pc = "done" /\ call[t].result = "SizeError"
        /\ ~env.autogrow /\ env.logger /\ call[t].txns = 1 /\ call[t].logs = 0

\* How far a running set or update is from its end: the passes left, and the steps
\* left in the pass.
Measure(f) ==
    IF f.pc = "done" THEN 0
    ELSE 3 * (MaxTries - f.i) + (CASE f.pc = "txn" -> 3 [] f.pc = "grow" -> 2 [] OTHER -> 1)

C3_Bounded ==
    \A t \in Threads :
        LET f == call[t]
        IN IsWrite(f)
           => /\ f.txns <= MaxTries /\ f.i <= MaxTries /\ f.fulls <= f.txns
              /\ f.result = "GrowError" => /\ f.txns = MaxTries /\ f.fulls = MaxTries
                                           /\ env.autogrow /\ store = f.pre_store
              /\ (f.pc = "done" /\ f.fulls = MaxTries) => f.result = "GrowError"
              /\ f.result = "SizeError" => ~env.autogrow

C3_Progress ==
    \A t \in Threads :
        (IsWrite(call[t]) /\ call[t].pc # "done" /\ call'[t] # call[t])
        => /\ call'[t].op = call[t].op
           /\ Measure(call'[t]) < Measure(call[t])

\* C3: with autogrow enabled the retry driver always terminates: when every attempt
\* reports map-full it makes exactly MaxTries attempts (write transactions) and
\* then fails with GrowError, which is not the SizeError of a Handle without
\* autogrow; it never makes another attempt, and every step of a running call
\* brings it nearer its end.
C3_AutogrowTerminates == [](C3_Bounded) /\ [][C3_Progress]_vars

\* A set that gave up after MaxTries attempts, the map MaxTries times doubled.
C3_Witness ==
    \E t \in Threads :
        /\ SetDone(call[t]) /\ call[t].result = "GrowError"
        /\ call[t].txns = MaxTries /\ env.map_size = call[t].pre_map * 2 ^ MaxTries

\* ------------------------------------------------------------ atomicity

\* The stored key of the item at i of a batch, and the last item with that key.
BatchKey(batch, i) == _pre_key(batch[i][1]).d

LastOf(batch, i) ==
    CHOOSE j \in i..Len(batch) :
        /\ BatchKey(batch, j) = BatchKey(batch, i)
        /\ \A m \in (j + 1)..Len(batch) : BatchKey(batch, m) # BatchKey(batch, i)

BatchKeys(batch) == {BatchKey(batch, i) : i \in 1..Len(batch)}

\* C4: a batch update is all-or-nothing. While an update is running, between its
\* attempts, and after it has failed, the store holds no part of the batch; once it
\* has returned, every key of the batch reads back with exactly its value and the
\* other keys are as they were.
C4_UpdateAllOrNothing ==
    \A t \in Threads :
        LET f == call[t]
        IN (f.op = "update" /\ f.pc # "idle")
           => /\ (f.pc # "done" \/ f.result # "ok") => store = f.pre_store
              /\ (f.pc = "done" /\ f.result = "ok" /\ env.state = "open")
                 => /\ \A i \in 1..Len(f.batch) :
                          GetResult(env, store, f.batch[i][1]) = f.batch[LastOf(f.batch, i)][2]
                    /\ DOMAIN store = DOMAIN f.pre_store \cup BatchKeys(f.batch)
                    /\ \A k \in DOMAIN f.pre_store \ BatchKeys(f.batch) : store[k] = f.pre_store[k]

\* The test's case: two keys with 3000-byte values given as a generator to a Handle
\* with a 1024-byte map, stored after three doublings.
C4_Witness ==
    \E t \in Threads :
        /\ call[t].op = "update" /\ call[t].pc = "done" /\ call[t].result = "ok"
        /\ call[t].pre_map = 1024 /\ call[t].grows = 3
        /\ Cardinality(BatchKeys(call[t].batch)) = 2
        /\ \A k \in BatchKeys(call[t].batch) : k \in DOMAIN store /\ Len(store[k]) * Chunk = 3000

\* A method that writes has ended by raising.
WriteFailed(f) ==
    f.op \in {"set", "update", "delete", "pop"} /\ f.pc = "done" /\ f.result # "ok"

\* C5: whenever set, update, delete or pop ends by raising an error, the store is
\* as it was before the call; a pop whose stored bytes fail to decode included.
C5_FailedWriteLeavesStore ==
    \A t \in Threads : WriteFailed(call[t]) => store = call[t].pre_store

\* What the code does keep: a failed set, update or delete changes nothing, and so
\* does a failed pop unless it fails in decoding the value it has already removed.
C5_FailedWriteButPopDecode ==
    \A t \in Threads :
        WriteFailed(call[t])
        => \/ store = call[t].pre_store
           \/ /\ call[t].op = "pop"
              /\ call[t].result \in {"BadGzipFile", "JSONDecodeError", "UnicodeDecodeError"}
              /\ store = Remove(call[t].pre_store, _pre_key(call[t].key).d)

\* ------------------------------------------------------------ resizing

\* C6: a map resize never happens while a transaction is open on the environment:
\* neither a write or read transaction of a method, nor the read transaction that a
\* keys(), items() or values() traversal holds between two of its yields.
C6_ResizeExcludesTransactions == ~unsafe

\* ------------------------------------------------------------ codec chains

\* What one stage of a chain does to a value on the way in and on the way out.
StageEncode(stage, value) ==
    IF stage = "Json"
    THEN LET text == json_dumps(value)
         IN IF IsExc(text) THEN text ELSE B(utf8_encode(text.d))
    ELSE gzip_compress(to_bytes(value), compresslevel)

StageDecode(stage, value) ==
    IF stage = "Json" THEN json_loads(value) ELSE gzip_decompress(value)

\* The stages from n on applied in order, and the stages up to n applied in
\* reverse order.
RECURSIVE EncodeInOrder(_, _, _)
EncodeInOrder(stages, n, value) ==
    IF n > Len(stages) THEN to_bytes(value)
    ELSE EncodeInOrder(stages, n + 1, StageEncode(stages[n], value))

RECURSIVE DecodeInReverse(_, _, _)
DecodeInReverse(stages, n, value) ==
    IF n = 0 THEN value
    ELSE DecodeInReverse(stages, n - 1, StageDecode(stages[n], value))

JsonCompress == ClassList(<<"Json", "Compress">>)

\* The configured stages of a classtype.
StagesOf(classtype) == IF classtype.isList THEN classtype.v ELSE <<>>

\* C7: encoding applies the stages of the chain in the configured order and
\* decoding applies them in the reverse order, the chain being fixed when the
\* Handle is built; for [Json, Compress] the bytes stored are
\* compress(json_encode(v)) and get returns json_decode(decompress(stored)).
C7_ChainOrder ==
    LET stages == StagesOf(c_classtype)
    IN /\ c_pc # "new" => c_cls = stages
       /\ c_pc \in {"stored", "raised", "read"} => c_stored = EncodeInOrder(stages, 1, c_value)
       /\ c_pc = "read" => c_out = DecodeInReverse(stages, Len(stages), c_stored)
       /\ (c_classtype = JsonCompress /\ c_pc \in {"stored", "read"})
          => c_stored = gzip_compress(B(utf8_encode(json_dumps(c_value).d)), compresslevel)
       /\ (c_classtype = JsonCompress /\ c_pc = "read")
          => c_out = json_loads(gzip_decompress(c_stored))

\* The test's dictionary under [Json, Compress]: what is stored is a gzip stream of
\* the text {"a":52,"b":95}, and the dictionary is read back.
C7_Witness ==
    /\ c_pc = "read" /\ c_classtype = JsonCompress
    /\ c_value = PyDict(<<<<S(<<97>>), I(52)>>, <<S(<<98>>), I(95)>>>>)
    /\ SubSeq(c_stored.d, 1, 2) = GzipMagic
    /\ gzip_decompress(c_stored)
         = B(<<123, 34, 97, 34, 58, 53, 50, 44, 34, 98, 34, 58, 57, 53, 125>>)
    /\ c_out = c_value

\* A get has returned what a set of c_value stored.
ReadBack == c_pc = "read"

\* C8: for every codec chain (the default, [Json], [Compress], [Json, Compress],
\* [Compress, Json]) and every value the chain accepts, get(k) after set(k, v)
\* returns a value equal to v.
C8_RoundTrip == ReadBack => c_out = c_value

\* The values json reads back as they were written: null, booleans, integers,
\* text, and lists and dicts of these, the keys of every dict being text.
RECURSIVE TextKeyed(_)
TextKeyed(v) ==
    IF v.t = "list" THEN \A n \in 1..Len(v.d) : TextKeyed(v.d[n])
    ELSE IF v.t = "dict"
         THEN \A n \in 1..Len(v.d) : v.d[n][1].t = "str" /\ TextKeyed(v.d[n][2])
    ELSE v.t \in {"none", "bool", "int", "str"}

\* C8 as the code has it. Under the default class and under [Compress] a value is
\* bytes or text, and get returns bytes: the value itself if it was bytes, its
\* UTF-8 encoding if it was text. Under [Json] and [Json, Compress] every JSON value
\* is accepted, and get returns a value equal to it when the keys of its dicts are
\* text. Under [Compress, Json] no value is accepted: set raises TypeError.
C8_RoundTripOfBytesAndJson ==
    LET stages == StagesOf(c_classtype)
        json == stages # <<>> /\ Head(stages) = "Json"
    IN /\ (ReadBack /\ ~json)
          => /\ c_value.t \in {"bytes", "str"}
             /\ c_out = to_bytes(c_value)
             /\ c_value.t = "bytes" => c_out = c_value
             /\ c_value.t = "str" => c_out = B(utf8_encode(c_value.d)) /\ c_out # c_value
       /\ (ReadBack /\ json /\ TextKeyed(c_value)) => c_out = c_value
       /\ (c_pc = "raised" /\ ~json /\ stages # <<"Compress", "Json">>)
          => c_value.t \notin {"bytes", "str"}
       /\ (c_pc = "raised" /\ json) => c_value \notin JsonValues
       /\ (stages = <<"Compress", "Json">> /\ c_pc \notin {"new", "built"})
          => c_pc = "raised" /\ c_stored = Exc("TypeError")

\* Text under [Compress], as in the test: "é" is stored and its two bytes come back.
C8_Witness ==
    /\ ReadBack /\ c_classtype = ClassList(<<"Compress">>)
    /\ c_value = S(<<233>>) /\ c_out = B(<<195, 169>>)

\* ------------------------------------------------------------ open

\* open has just returned or raised; opened holds its flag, how it ended, and the
\* files and the store it found.
JustOpened == opened.result # "none"

\* No file or directory of the store exists.
NothingOnDisk(f) == ~f.dir /\ ~f.data /\ ~f.lock

\* C9: open creates the files of a store only under the flags a, c and n. Opening
\* a path that does not exist with r or w fails and leaves no file or directory
\* behind; an unrecognized flag fails with ValueError before the Engine is called,
\* the files, the store and the Handle being as they were.
C9_OpenCreatesOnlyUnderACN ==
    JustOpened
    => /\ (NothingOnDisk(opened.fs) /\ ~NothingOnDisk(fs)) => opened.flag \in {"a", "c", "n"}
       /\ (NothingOnDisk(opened.fs) /\ opened.flag \in {"a", "c", "n"})
          => opened.result = "ok" /\ fs.dir /\ fs.data /\ store = EmptyStore
       /\ (NothingOnDisk(opened.fs) /\ opened.flag \in {"r", "w"})
          => /\ opened.result = "Error"
             /\ NothingOnDisk(fs) /\ store = EmptyStore
             /\ env.state # "open"
       /\ opened.flag \notin {"r", "w", "a", "c", "n"}
          => /\ opened.result = "ValueError"
             /\ fs = opened.fs /\ store = opened.store
             /\ env.state # "open"

\* The test's case: flag r on a path that does not exist.
C9_Witness ==
    /\ opened.flag = "r" /\ opened.result = "Error"
    /\ NothingOnDisk(opened.fs) /\ NothingOnDisk(fs)

\* open has just found a store with entries in it.
OpenedPopulated == JustOpened /\ opened.fs.data /\ opened.store # EmptyStore

\* C10: opening an existing populated store with flag n yields an empty store: its
\* length is 0 and no key it had can be read; opening it with r, w, a or c keeps
\* every key and value it had.
C10_RecreateWipes ==
    OpenedPopulated
    => /\ opened.flag \in {"r", "w", "a", "c", "n"} => opened.result = "ok" /\ env.state = "open"
       /\ opened.flag = "n"
          => /\ Cardinality(DOMAIN store) = 0
             /\ \A k \in DOMAIN opened.store : GetResult(env, store, B(k)) = Exc("KeyError")
       /\ opened.flag \in {"r", "w", "a", "c"}
          => /\ store = opened.store
             /\ \A k \in DOMAIN opened.store : GetResult(env, store, B(k)) # Exc("KeyError")

\* A store of two entries opened with flag n.
C10_Witness ==
    /\ OpenedPopulated /\ opened.flag = "n" /\ opened.result = "ok"
    /\ Cardinality(DOMAIN opened.store) = 2
    /\ store = EmptyStore

\* ------------------------------------------------------------ removing

\* A delete or pop that has ended on an open, writable Handle, with a key of a type
\* that encodes, the Engine failing with nothing but map-full.
Removal(f) ==
    /\ f.op \in {"delete", "pop"} /\ f.pc = "done"
    /\ env.state = "open" /\ ~env.readonly
    /\ ~f.faulted /\ ~IsExc(_pre_key(f.key))

RemovedKey(f) == _pre_key(f.key).d

\* C11: removing an absent key is tolerated. pop(k, d) on an absent key returns d
\* and raises nothing, delete(k) on an absent key raises nothing, and the store and
\* its length are as before. pop on a present key removes it in its one write
\* transaction and returns the decoded value.
C11_AbsentKeyTolerated ==
    \A t \in Threads :
        LET f == call[t]
            k == RemovedKey(f)
        IN Removal(f)
           => /\ f.txns = 1
              /\ k \notin DOMAIN f.pre_store
                 => /\ f.result = "ok"
                    /\ store = f.pre_store
                    /\ Cardinality(DOMAIN store) = Cardinality(DOMAIN f.pre_store)
                    /\ f.op = "pop" => f.ret = f.value
              /\ (k \in DOMAIN f.pre_store /\ f.fulls = 0)
                 => /\ store = Remove(f.pre_store, k)
                    /\ k \notin DOMAIN store
                    /\ Cardinality(DOMAIN store) = Cardinality(DOMAIN f.pre_store) - 1
                    /\ f.op = "delete" => f.result = "ok"
                    /\ f.op = "pop" => f.ret = _post_value(env.cls, B(f.pre_store[k]))
                    /\ (f.op = "pop" /\ f.result = "ok") => ~IsExc(f.ret)

\* pop of an absent key with a default of bytes, on a store that holds another key.
C11_Witness ==
    \E t \in Threads :
        /\ Removal(call[t]) /\ call[t].op = "pop" /\ call[t].result = "ok"
        /\ RemovedKey(call[t]) \notin DOMAIN call[t].pre_store
        /\ call[t].ret = B(<<100>>)
        /\ store # EmptyStore /\ store = call[t].pre_store

\* ------------------------------------------------------------ reading

\* What decoding raises: gzip.BadGzipFile, json.JSONDecodeError, UnicodeDecodeError.
DecodeErrors == {"BadGzipFile", "JSONDecodeError", "UnicodeDecodeError"}

\* A __getitem__ or get that has ended on an open Handle, with a key of a type that
\* encodes.
Lookup(f) ==
    /\ f.op \in {"get", "getdefault"} /\ f.pc = "done"
    /\ env.state = "open" /\ ~IsExc(_pre_key(f.key))

\* The stored bytes of the key looked up, taken through the stages of the Handle's
\* class in reverse.
Decoded(f) == DecodeInReverse(env.cls, Len(env.cls), B(store[_pre_key(f.key).d]))

\* C12: get(k) raises KeyError exactly when k is absent. Stored bytes that fail to
\* decode at a stage of the chain reach the caller as the decode error of that
\* stage, which is not KeyError, and get(k, default) does not turn it into default.
C12_NotFoundOnlyWhenAbsent ==
    \A t \in Threads :
        LET f == call[t]
            absent == _pre_key(f.key).d \notin DOMAIN store
        IN Lookup(f)
           => /\ f.op = "get" => (f.result = "KeyError" <=> absent)
              /\ (f.op = "getdefault" /\ absent) => f.result = "ok" /\ f.ret = f.value
              /\ (~absent /\ IsExc(Decoded(f)))
                 => /\ f.result \in DecodeErrors /\ f.result = Decoded(f).d
                    /\ f.ret # f.value
              /\ (~absent /\ ~IsExc(Decoded(f))) => f.result = "ok" /\ f.ret = Decoded(f)

\* get(k, default) under [Json, Compress] of bytes that a Handle of class [Compress]
\* wrote: they decompress, and what comes out is not JSON.
C12_Witness ==
    \E t \in Threads :
        /\ Lookup(call[t]) /\ call[t].op = "getdefault"
        /\ env.cls = <<"Json", "Compress">>
        /\ _pre_key(call[t].key).d \in DOMAIN store
        /\ ~IsExc(gzip_decompress(B(store[_pre_key(call[t].key).d])))
        /\ call[t].result = "JSONDecodeError"

\* ------------------------------------------------------------ Engine failures

\* C13: an Engine failure other than map-full in an attempt of set, update, delete
\* or pop ends the method in that attempt. The lmdb.Error reaches the caller as it
\* is, no attempt follows, nothing is written, and the map size is what the
\* map-full attempts before it had made of it.
C13_EngineErrorEndsWrite ==
    \A t \in Threads :
        LET f == call[t]
        IN /\ f.faulted
              => /\ f.op \in {"set", "update", "delete", "pop"}
                 /\ f.pc = "done" /\ f.result = "Error"
           /\ (f.op \in {"set", "update", "delete", "pop"} /\ f.pc = "done" /\ f.result = "Error")
              => /\ f.txns = f.fulls + 1
                 /\ f.grows = f.fulls
                 /\ store = f.pre_store
                 /\ env.state = "open" => env.map_size = f.pre_map * 2 ^ f.grows

\* An update that the Engine failed in its third attempt, after two doublings.
C13_Witness ==
    \E t \in Threads :
        /\ call[t].op = "update" /\ call[t].faulted /\ call[t].pc = "done"
        /\ call[t].txns = 3 /\ call[t].grows = 2
        /\ env.map_size = 4 * call[t].pre_map

\* ------------------------------------------------------------ scoped use

C15_DeleteGrowsAndRetries ==
    \A t \in Threads :
        LET f == call[t]
        IN (f.op \in {"delete", "pop"} /\ f.pc = "done" /\ env.state = "open")
           => /\ f.result # "MapFullError"
              /\ (f.fulls >= 1 /\ env.autogrow) => f.grows >= 1 /\ f.txns >= 2
              /\ (f.fulls >= 1 /\ ~env.autogrow) => f.result = "SizeError"

\* C16: every doubling of the map made by set or update is followed by another
\* attempt of the same write, in a new transaction, before a failure is reported:
\* the map is never grown and the write then given up untried, so that a call that
\* has made an attempt has made fewer doublings than attempts.
C16_DoublingIsRetried ==
    \A t \in Threads :
        LET f == call[t]
        IN (IsWrite(f) /\ f.pc = "done" /\ f.txns >= 1) => f.grows <= f.txns - 1

\* ------------------------------------------------------------ threads

\* Thread t installs a new map size in this step.
Installs(t) == call[t].pc = "resize" /\ call'[t].pc = "txn"

\* C17: growth of the map is monotonic exact doubling. Whatever the interleaving of
\* the set and update calls of several threads on one Handle, the map size never
\* decreases, and every grow step sets it to exactly twice the size in effect when
\* the new size is installed.
C17_MonotonicExactDoubling ==
    [][/\ (env.state = "open" /\ env'.state = "open") => env'.map_size >= env.map_size
       /\ \A t \in Threads : Installs(t) => env'.map_size = 2 * env.map_size]_vars

\* The pairs of __other as the caller passed them: the batch without the direct pairs.
OtherItems(f) == SubSeq(f.batch, 1, Len(f.batch) - Len(f.kwds))

\* A pass of the loop body of update by thread t.
UpdatePass(t) == call[t].op = "update" /\ call'[t].txns = call[t].txns + 1

\* C18: every pass of one update call hands putmulti the same lists. The positional
\* list is the encoding of the pairs the caller passed, also when they came from a
\* generator that the first pass used up and also when there are none; the list of
\* direct pairs, once a pass got as far as submitting it, is the encoding of kwds;
\* and a pass after a MapFullError submits the lists of the pass before it. (A pass
\* the Engine fails with another error submits nothing.)
C18_SameBatchEveryAttempt ==
    [][\A t \in Threads :
          UpdatePass(t) /\ ~BeginFails(TRUE) /\ ~call'[t].faulted =>
              LET f == call[t]
                  g == call'[t]
                  mo == Materialize(env.cls, OtherItems(f), 1, <<>>)
                  mk == Materialize(env.cls, f.kwds, 1, <<>>)
              IN /\ mo.ok => g.pairs_other = mo.pairs
                 /\ f.txns >= 1 => g.pairs_other = f.pairs_other
                 /\ g.pairs_kwds # <<>> => mk.ok /\ g.pairs_kwds = mk.pairs
                 /\ f.pairs_kwds # <<>> => g.pairs_kwds = f.pairs_kwds
                 /\ g.result = "ok" => g.pairs_kwds = mk.pairs]_vars

\* An update from a generator of two pairs that met MapFullError, grew the map and
\* committed on a later pass, the generator long used up.
C18_Witness ==
    \E t \in Threads :
        /\ call[t].op = "update" /\ call[t].result = "ok"
        /\ call[t].other = Batch("iter", <<>>) /\ Len(OtherItems(call[t])) = 2
        /\ call[t].fulls >= 1 /\ call[t].txns = call[t].fulls + 1
        /\ call[t].pairs_other = Materialize(env.cls, OtherItems(call[t]), 1, <<>>).pairs
        /\ \A i \in 1..2 : store[call[t].pairs_other[i][1]] = call[t].pairs_other[i][2]

\* The encoded keys of a list of encoded pairs.
PairKeys(pairs) == {pairs[i][1] : i \in 1..Len(pairs)}

\* The value of the last pair of the list that has key k.
Winner(pairs, k) ==
    pairs[CHOOSE j \in 1..Len(pairs) :
              /\ pairs[j][1] = k
              /\ \A m \in (j + 1)..Len(pairs) : pairs[m][1] # k][2]

\* The store st overridden by the pairs of po and then by those of pk.
Overridden(st, po, pk) ==
    [k \in DOMAIN st \cup PairKeys(po) \cup PairKeys(pk) |->
        IF k \in PairKeys(pk) THEN Winner(pk, k)
        ELSE IF k \in PairKeys(po) THEN Winner(po, k)
        ELSE st[k]]

\* C19: while an update runs the store changes in one step only, the pass that
\* commits; that pass leaves the store the call started from overridden by the
\* encoded pairs of __other, the last pair of a key winning, and then by the encoded
\* direct pairs, which win over __other; keys outside the batch keep their values
\* and len() grows by the number of keys that were not stored before.
C19_UpdateOverridesInOrder ==
    [][\A t \in Threads :
          (call[t].op = "update" /\ call[t].pc # "done") =>
              LET f == call[t]
                  g == call'[t]
                  po == Materialize(env.cls, OtherItems(f), 1, <<>>).pairs
                  pk == Materialize(env.cls, f.kwds, 1, <<>>).pairs
                  fresh == (PairKeys(po) \cup PairKeys(pk)) \ DOMAIN f.pre_store
              IN /\ store' # store => UpdatePass(t) /\ g.pc = "done" /\ g.result = "ok"
                 /\ (g.pc = "done" /\ g.result = "ok")
                    => /\ store = f.pre_store
                       /\ store' = Overridden(f.pre_store, po, pk)
                       /\ \A k \in DOMAIN f.pre_store \ (PairKeys(po) \cup PairKeys(pk)) :
                              store'[k] = f.pre_store[k]
                       /\ __len__(store') = __len__(f.pre_store) + Cardinality(fresh)]_vars

\* An update that returned after it replaced a stored value, let a direct pair win
\* over a pair of __other with the same key and added one new key.
C19_Witness ==
    \E t \in Threads :
        LET f == call[t]
            po == f.pairs_other
            pk == f.pairs_kwds
        IN /\ f.op = "update" /\ f.pc = "done" /\ f.result = "ok" /\ store # f.pre_store
           /\ store = Overridden(f.pre_store, po, pk)
           /\ \E k \in PairKeys(po) \cap PairKeys(pk) : Winner(po, k) # Winner(pk, k)
           /\ \E k \in DOMAIN f.pre_store \cap PairKeys(po) : f.pre_store[k] # store[k]
           /\ __len__(store) = __len__(f.pre_store) + 1

\* Thread t's setdefault returns a value in this step.
SetDefaultReturns(t) ==
    /\ call'[t] # call[t]
    /\ call'[t].op = "setdefault" /\ call'[t].pc = "done" /\ call'[t].result = "ok"

\* Thread t's setdefault, begun earlier, takes this step.
SetDefaultSteps(t) ==
    /\ call'[t] # call[t]
    /\ call[t].op = "setdefault" /\ call[t].pc # "done" /\ call'[t].op = "setdefault"

\* C20: setdefault(k, d) returns the value stored under k at the moment it returns,
\* and a step of a setdefault call never replaces a value that is stored under k,
\* whatever other threads do on the Handle between the steps of the call.
C20_SetDefaultAtomic ==
    [][\A t \in Threads :
          LET k == _pre_key(call'[t].key).d
          IN /\ SetDefaultReturns(t) => call'[t].ret = GetResult(env', store', call'[t].key)
             /\ (SetDefaultSteps(t) /\ k \in DOMAIN store)
                => k \in DOMAIN store' /\ store'[k] = store[k]]_vars

\* A key the Handle accepts, and the bytes that identify it: the key itself when
\* it is bytes, its utf8 encoding when it is text.
IsKey(key) == key.t \in {"bytes", "str"}
Addressed(key) == IF key.t = "bytes" THEN key.d ELSE utf8_encode(key.d)

\* Thread t's method, called on an open Handle, ends in this step, and not by a
\* failure of the Engine's own.
Completes(t) ==
    /\ env.state = "open"
    /\ call'[t] # call[t] /\ call'[t].pc = "done" /\ ~call'[t].faulted

\* The method that ends was given a key, or a batch with a key, that is neither
\* bytes nor text.
BadKeyGiven(g) ==
    \/ g.op \in {"get", "contains", "set", "delete", "pop"} /\ ~IsKey(g.key)
    \/ g.op = "update" /\ \E i \in 1..Len(g.batch) : ~IsKey(g.batch[i][1])

\* What a method that returned has done to the entry its key addresses.
KeyedOutcome(g) ==
    LET kb == Addressed(g.key)
    IN /\ g.op = "get" => kb \in DOMAIN store /\ g.ret = _post_value(env.cls, B(store[kb]))
       /\ g.op = "contains" => g.ret = PyBool(kb \in DOMAIN store)
       /\ g.op = "set" => store' = Put(store, kb, _pre_value(env.cls, g.value).d)
       /\ g.op = "delete" => store' = Remove(store, kb)
       /\ g.op = "pop" => /\ store' = Remove(store, kb)
                          /\ g.ret = IF kb \in DOMAIN store
                                     THEN _post_value(env.cls, B(store[kb])) ELSE g.value
       /\ g.op = "update" =>
             DOMAIN store' = DOMAIN store \cup {Addressed(g.batch[i][1]) : i \in 1..Len(g.batch)}

\* The keys yielded so far are stored keys in ascending byte order with none left out.
YieldedInOrder(g) ==
    /\ \A i \in 1..Len(g.out) : g.out[i] \in DOMAIN g.snap
    /\ \A i \in 1..(Len(g.out) - 1) : BytesLess(g.out[i], g.out[i + 1])
    /\ \A k \in DOMAIN g.snap :
          (g.out # <<>> /\ BytesLess(k, g.out[Len(g.out)])) => \E i \in 1..Len(g.out) : g.out[i] = k

\* C21: keys are identified by their bytes. A method that returns has acted on the
\* entry addressed by the bytes of its key, the utf8 encoding for a text key; a
\* missing key is reported for get only when those bytes are not stored; keys()
\* yields stored keys as bytes in ascending byte order, each once; and every method
\* given a key that is neither bytes nor text ends with TypeError and leaves the
\* store as it was.
C21_KeysAreBytes ==
    [][/\ \A t \in Threads :
             Completes(t) =>
                 LET g == call'[t]
                 IN /\ BadKeyGiven(g) => g.result = "TypeError" /\ store' = store
                    /\ (~BadKeyGiven(g) /\ g.result = "ok" /\ g.op # "keys") => KeyedOutcome(g)
                    /\ (g.op = "get" /\ IsKey(g.key) /\ g.result = "KeyError")
                       => Addressed(g.key) \notin DOMAIN store
       /\ YieldedInOrder(gen')]_vars

\* What the code does keep: the same, with TypeError for delete, pop and update
\* only on a Handle that is not read-only, and the order of a traversal only while
\* the map was not resized under it.
C21_KeysOnUsableHandle ==
    [][/\ \A t \in Threads :
             Completes(t) =>
                 LET g == call'[t]
                 IN /\ (BadKeyGiven(g) /\ ~BeginFails(g.op \in {"delete", "pop", "update"}))
                       => g.result = "TypeError" /\ store' = store
                    /\ (~BadKeyGiven(g) /\ g.result = "ok" /\ g.op # "keys") => KeyedOutcome(g)
                    /\ (g.op = "get" /\ IsKey(g.key) /\ g.result = "KeyError")
                       => Addressed(g.key) \notin DOMAIN store
       /\ gen'.valid => YieldedInOrder(gen')]_vars
====
